---- MODULE Spec2Model ----
(***************************************************************************)
(* Registration / capacity model of the_steel_fist (src/utils.py,          *)
(* src/model.py).  The store is the relational schema of src/model.py; the *)
(* operations are the functions of src/utils.py.                           *)
(*                                                                         *)
(* Identifiers arrive as Python values: a str (streamlit text_input), an   *)
(* int (a DataFrame cell) or None.  A str is a sequence of one-character   *)
(* strings, so that str() and int() are modelled by what they compute.     *)
(* The Registrations table keeps member_id and course_id as TEXT           *)
(* (src/model.py:41-42) and has no unique constraint, so it is a bag of    *)
(* rows (registration_id only tells equal rows apart).                     *)
(***************************************************************************)
EXTENDS Integers, Sequences, FiniteSets, Bags, TLC

VARIABLES
    Members,        \* table members: member_id -> [member_name, email, access_card_id]
    Courses,        \* table courses: course_id -> [course_name, max_capacity,
                    \*                               time_plan, coach_id]
    Coaches,        \* table coaches: coach_id -> [coach_name, specialty]
    Accesscards,    \* table accesscards: the card_id values
    Registrations,  \* table registrations: bag of [member_id, course_id, registration_date]
    last,           \* the last call that returned: its arguments and its result
    succeeded,      \* history: the argument pairs of the register calls that succeeded
    pc,             \* per user session: position inside registrations()
    loc,            \* per user session: the locals of the running registrations()
    calls,          \* number of calls the concurrent sessions have issued
    ui              \* st.session_state of one browser session and what it shows

vars == <<Members, Courses, Coaches, Accesscards, Registrations, last, succeeded,
          pc, loc, calls, ui>>

----------------------------------------------------------------------------
(* Bounds of the model: member_id 1..NumMembers and course_id 1..NumCourses *)
(* exist; a pre-populated store starts with Preload registrations; NumProcs *)
(* user sessions run concurrently and issue MaxCalls calls between them.    *)

NumMembers == 11
Preload == 9
NumCourses == 1
NumProcs == 2
MaxCalls == 3

(* Program constant: the literal of the capacity check *)
CapacityThreshold == 10

----------------------------------------------------------------------------
(* Python values and the conversions registrations() applies to them *)

Digits == <<"0", "1", "2", "3", "4", "5", "6", "7", "8", "9">>

DigitSet == {Digits[i] : i \in 1..10}

DigitVal(ch) == CHOOSE d \in 0..9 : Digits[d + 1] = ch

StrVal(t)  == [kind |-> "str",  text |-> t,    val |-> 0]
IntVal(n)  == [kind |-> "int",  text |-> <<>>, val |-> n]
NoneVal    == [kind |-> "none", text |-> <<>>, val |-> 0]

RECURSIVE IntToText(_)
(* str(n) for a non-negative int: canonical decimal, no padding *)
IntToText(n) ==
    IF n < 10 THEN <<Digits[n + 1]>>
    ELSE IntToText(n \div 10) \o <<Digits[(n % 10) + 1]>>

RECURSIVE LStrip(_)
LStrip(t) == IF t # <<>> /\ Head(t) = " " THEN LStrip(Tail(t)) ELSE t

RECURSIVE RStrip(_)
RStrip(t) ==
    IF t # <<>> /\ t[Len(t)] = " " THEN RStrip(SubSeq(t, 1, Len(t) - 1)) ELSE t

Strip(t) == RStrip(LStrip(t))

RECURSIVE DigitsValue(_)
DigitsValue(t) ==
    IF t = <<>> THEN 0
    ELSE 10 * DigitsValue(SubSeq(t, 1, Len(t) - 1)) + DigitVal(t[Len(t)])

(* int(text) succeeds: surrounding blanks are dropped, what is left is a   *)
(* non-empty run of decimal digits (leading zeros allowed)                 *)
IsIntText(t) ==
    /\ Strip(t) # <<>>
    /\ \A i \in 1..Len(Strip(t)) : Strip(t)[i] \in DigitSet

(* str(x) *)
PyStr(x) ==
    CASE x.kind = "str"  -> x.text
      [] x.kind = "int"  -> IntToText(x.val)
      [] x.kind = "none" -> <<"N", "o", "n", "e">>

(* outcome of int(x): "ok", "ValueError" or "TypeError" *)
PyIntOutcome(x) ==
    CASE x.kind = "int"  -> "ok"
      [] x.kind = "none" -> "TypeError"
      [] x.kind = "str"  -> IF IsIntText(x.text) THEN "ok" ELSE "ValueError"

(* int(x) where it succeeds *)
PyInt(x) == IF x.kind = "int" THEN x.val ELSE DigitsValue(Strip(x.text))

----------------------------------------------------------------------------
(* The store *)

(* max_capacity of a course: 1 (spec scenario 1), the literal of the check, *)
(* and one above it                                                         *)
CapacityChoices == {1, CapacityThreshold, CapacityThreshold + 1}

ExistingMemberIds == 1..NumMembers
ExistingCourseIds == 1..NumCourses

(* a Registrations row as registrations() and populate_db build it *)
Row(member_id_str, course_id_str, registration_date) ==
    [member_id |-> member_id_str, course_id |-> course_id_str,
     registration_date |-> registration_date]

(* a store in which members 1..k are booked on course 1, each once *)
PreloadedRegistrations(k) ==
    SetToBag({Row(IntToText(m), IntToText(1), 1) : m \in 1..k})

(* rows of the table that satisfy course_id == course_id_str: a TEXT       *)
(* comparison, the column being declared str                               *)
RowsOfCourse(regs, course_id_str) ==
    [r \in {x \in BagToSet(regs) : x.course_id = course_id_str} |-> regs[r]]

(* len(select(Registrations).where(course_id == str(row.course_id)).all()) *)
registration_count(regs, course_id) ==
    BagCardinality(RowsOfCourse(regs, IntToText(course_id)))

NoCall == [op |-> "none", id_member |-> NoneVal, id_course |-> NoneVal,
           result |-> "none"]

NoLocals == [id_member |-> NoneVal, id_course |-> NoneVal,
             time_plan |-> 0, observed |-> 0]

Procs == 1..NumProcs

(* a browser session before its first script run: nobody is logged in and  *)
(* st.session_state has no df; stage, id_member and course_id are the      *)
(* entries of the registration wizard, event the user action of the last   *)
(* script run and shown the message that run displayed                     *)
NoDf == [kind |-> "missing", rows |-> <<>>]

NoSession ==
    [role |-> "none", page |-> "login", df |-> NoDf, stage |-> 0,
     id_member |-> NoneVal, course_id |-> NoneVal,
     event |-> "none", shown |-> "none"]

Init ==
    /\ Members = [m \in ExistingMemberIds |->
                     [member_name |-> <<"m">> \o IntToText(m), email |-> <<"e">>,
                      access_card_id |-> m]]
    /\ \E cap \in CapacityChoices :
          Courses = [c \in ExistingCourseIds |->
                        [course_name |-> <<"c">> \o IntToText(c),
                         max_capacity |-> cap, time_plan |-> c, coach_id |-> 1]]
    /\ Coaches = [k \in {1} |-> [coach_name |-> <<"k">> \o IntToText(k),
                                  specialty |-> <<"s">>]]
    /\ Accesscards = ExistingMemberIds
    /\ \E k \in {0, Preload} :
          /\ k <= Courses[1].max_capacity
          /\ Registrations = PreloadedRegistrations(k)
    /\ last = NoCall
    /\ succeeded = {}
    /\ pc = [p \in Procs |-> "idle"]
    /\ loc = [p \in Procs |-> NoLocals]
    /\ calls = 0
    /\ ui = NoSession

----------------------------------------------------------------------------
(* registrations(id_member, id_course), src/utils.py:294-356 *)

(* the int() conversions, in the order the function evaluates them:        *)
(* int(id_course) first, int(id_member) inside the member query            *)
ConversionOutcome(id_member, id_course) ==
    IF PyIntOutcome(id_course) # "ok" THEN PyIntOutcome(id_course)
    ELSE PyIntOutcome(id_member)

(* the member lookup with its result ignored: any convertible id passes *)
member_found_unchecked(id_member) == PyInt(id_member) >= 0

member_found(id_member) == PyInt(id_member) \in DOMAIN Members

course_found(id_course) == PyInt(id_course) \in DOMAIN Courses

current_registrations(regs, course_id_str) ==
    BagCardinality(RowsOfCourse(regs, course_id_str))

(* the capacity comparison off by one *)
CourseIsFull_gt(n) == n > CapacityThreshold

CourseIsFull(n) == n >= CapacityThreshold

(* the duplicate query with its two operands swapped *)
existing_registration_swapped(regs, member_id_str, course_id_str) ==
    \E r \in BagToSet(regs) :
        r.member_id = course_id_str /\ r.course_id = member_id_str

existing_registration(regs, member_id_str, course_id_str) ==
    \E r \in BagToSet(regs) :
        r.member_id = member_id_str /\ r.course_id = course_id_str

(* a row dated with the moment of the call instead of the course's time *)
new_registration_now(id_member, id_course, time_plan) ==
    Row(PyStr(id_member), PyStr(id_course), 0)

new_registration(id_member, id_course, time_plan) ==
    Row(PyStr(id_member), PyStr(id_course), time_plan)

(* what one call returns when nothing else touches the store meanwhile *)
RegisterResult(id_member, id_course) ==
    LET conv == ConversionOutcome(id_member, id_course) IN
    IF conv = "ValueError" THEN "InvalidInput"
    ELSE IF conv = "TypeError" THEN "TypeError"
    ELSE IF ~member_found(id_member) THEN "MemberNotFound"
    ELSE IF ~course_found(id_course) THEN "CourseNotFound"
    ELSE IF CourseIsFull(current_registrations(Registrations, PyStr(id_course)))
         THEN "CourseFull"
    ELSE IF existing_registration(Registrations, PyStr(id_member), PyStr(id_course))
         THEN "Duplicate"
    ELSE "Success"

Returned(id_member, id_course, result) ==
    [op |-> "register", id_member |-> id_member, id_course |-> id_course,
     result |-> result]

(* one whole call, run alone *)
registrations(id_member, id_course) ==
    LET result == RegisterResult(id_member, id_course) IN
    /\ \A p \in Procs : pc[p] = "idle"
    /\ Registrations' =
          IF result = "Success"
          THEN Registrations (+) SetToBag({new_registration(id_member, id_course,
                                     Courses[PyInt(id_course)].time_plan)})
          ELSE Registrations
    /\ succeeded' = IF result = "Success"
                    THEN succeeded \cup {<<id_member, id_course>>}
                    ELSE succeeded
    /\ last' = Returned(id_member, id_course, result)
    /\ UNCHANGED <<Members, Courses, Coaches, Accesscards, pc, loc, calls>>

(* the arguments the callers supply: id_member is the text typed into the  *)
(* wizard, id_course a cell of the course listing                          *)
NewMemberIds == (Preload + 1)..NumMembers

MemberArgs ==
    {StrVal(IntToText(m)) : m \in NewMemberIds \cup {1, NumMembers + 1}}
    \cup {StrVal(<<"0">> \o IntToText(1)), StrVal(<<"x">>), NoneVal}

CourseArgs ==
    {IntVal(c) : c \in 1..(NumCourses + 1)} \cup {StrVal(<<"x">>), NoneVal}

Register == \E id_member \in MemberArgs, id_course \in CourseArgs :
                registrations(id_member, id_course) /\ UNCHANGED ui

Next == Register

Spec == Init /\ [][Next]_vars

----------------------------------------------------------------------------
(* registrations() called from several user sessions at once.  Every query *)
(* of the function is its own statement against the shared store and the   *)
(* insert is committed at the end; nothing locks the table in between, so  *)
(* a session sees what the others have committed so far.                   *)

Idle(p) == [pc EXCEPT ![p] = "idle"]

ReturnFrom(p, result) ==
    /\ pc' = Idle(p)
    /\ loc' = [loc EXCEPT ![p] = NoLocals]
    /\ last' = Returned(loc[p].id_member, loc[p].id_course, result)

(* lines 306-316: the conversions and the member query *)
RegStart(p, id_member, id_course) ==
    LET conv == ConversionOutcome(id_member, id_course) IN
    /\ pc[p] = "idle"
    /\ calls < MaxCalls
    /\ calls' = calls + 1
    /\ IF conv # "ok" \/ ~member_found(id_member)
       THEN /\ last' = Returned(id_member, id_course,
                          IF conv = "ValueError" THEN "InvalidInput"
                          ELSE IF conv = "TypeError" THEN "TypeError"
                          ELSE "MemberNotFound")
            /\ UNCHANGED <<pc, loc>>
       ELSE /\ pc' = [pc EXCEPT ![p] = "course"]
            /\ loc' = [loc EXCEPT ![p] = [NoLocals EXCEPT !.id_member = id_member,
                                                          !.id_course = id_course]]
            /\ UNCHANGED last
    /\ UNCHANGED <<Members, Courses, Coaches, Accesscards, Registrations, succeeded,
                   ui>>

(* lines 318-321: the course query *)
RegCheckCourse(p) ==
    /\ pc[p] = "course"
    /\ IF ~course_found(loc[p].id_course)
       THEN ReturnFrom(p, "CourseNotFound")
       ELSE /\ pc' = [pc EXCEPT ![p] = "count"]
            /\ loc' = [loc EXCEPT ![p].time_plan =
                                     Courses[PyInt(loc[p].id_course)].time_plan]
            /\ UNCHANGED last
    /\ UNCHANGED <<Members, Courses, Coaches, Accesscards, Registrations, succeeded,
                   calls, ui>>

(* lines 323-329: the count of the course's registrations and the capacity check *)
RegCheckCapacity(p) ==
    LET n == current_registrations(Registrations, PyStr(loc[p].id_course)) IN
    /\ pc[p] = "count"
    /\ IF CourseIsFull(n)
       THEN ReturnFrom(p, "CourseFull")
       ELSE /\ pc' = [pc EXCEPT ![p] = "dup"]
            /\ loc' = [loc EXCEPT ![p].observed = n]
            /\ UNCHANGED last
    /\ UNCHANGED <<Members, Courses, Coaches, Accesscards, Registrations, succeeded,
                   calls, ui>>

(* lines 331-340: the duplicate query *)
RegCheckExisting(p) ==
    /\ pc[p] = "dup"
    /\ IF existing_registration(Registrations, PyStr(loc[p].id_member),
                                PyStr(loc[p].id_course))
       THEN ReturnFrom(p, "Duplicate")
       ELSE /\ pc' = [pc EXCEPT ![p] = "insert"]
            /\ UNCHANGED <<loc, last>>
    /\ UNCHANGED <<Members, Courses, Coaches, Accesscards, Registrations, succeeded,
                   calls, ui>>

(* lines 342-351: the insert, committed *)
RegCommit(p) ==
    /\ pc[p] = "insert"
    /\ Registrations' = Registrations (+)
          SetToBag({new_registration(loc[p].id_member, loc[p].id_course,
                                     loc[p].time_plan)})
    /\ succeeded' = succeeded \cup {<<loc[p].id_member, loc[p].id_course>>}
    /\ ReturnFrom(p, "Success")
    /\ UNCHANGED <<Members, Courses, Coaches, Accesscards, calls, ui>>

(* the calls the sessions issue: members not yet booked, and an unknown one *)
ConcMemberArgs ==
    {StrVal(IntToText(m)) : m \in NewMemberIds \cup {NumMembers + 1}}

ConcCourseArgs == {IntVal(c) : c \in 1..(NumCourses + 1)}

Start == \E p \in Procs, id_member \in ConcMemberArgs, id_course \in ConcCourseArgs :
            RegStart(p, id_member, id_course)

CheckCourse == \E p \in Procs : RegCheckCourse(p)

CheckCapacity == \E p \in Procs : RegCheckCapacity(p)

CheckExisting == \E p \in Procs : RegCheckExisting(p)

Commit == \E p \in Procs : RegCommit(p)

NextConc == Start \/ CheckCourse \/ CheckCapacity \/ CheckExisting \/ Commit

(* the sessions meet a store one booking short of the literal of the check *)
InitConc ==
    /\ Init
    /\ Courses[1].max_capacity = CapacityThreshold
    /\ BagCardinality(Registrations) = Preload

SpecConc == InitConc /\ [][NextConc]_vars

----------------------------------------------------------------------------
(* Administration: the operations of utils.py that add, delete and update  *)
(* members, coaches and courses, run one after another on a small club.    *)

AdmMembers == 2
AdmCoaches == 2
AdmCourses == 3
MaxOps     == 2

Restrict(f, S) == [x \in S |-> f[x]]

(* the bag without the rows of the set S *)
WithoutRows(regs, S) == [r \in BagToSet(regs) \ S |-> regs[r]]

(* INTEGER PRIMARY KEY without AUTOINCREMENT: one more than the largest id *)
Max(S) == CHOOSE x \in S : \A y \in S : y <= x
NextId(table) == Max(DOMAIN table \cup {0}) + 1

MemberName(m) == <<"m">> \o IntToText(m)
CoachName(k)  == <<"k">> \o IntToText(k)
CourseName(c) == <<"c">> \o IntToText(c)

(* the coach of course c in the populated club: the first coach gives all  *)
(* courses but the last one, which the last coach gives                    *)
OwnerOf(c) == IF c < AdmCourses THEN 1 ELSE AdmCoaches

(* the populated club. The foreign keys of model.py are declarations: the *)
(* store does not enforce them, which is why the listings provide for a    *)
(* course whose coach row is missing                                       *)
InitAdmin ==
    /\ Members = [m \in 1..AdmMembers |->
                     [member_name |-> MemberName(m), email |-> <<"e">>,
                      access_card_id |-> m]]
    /\ Accesscards = 1..AdmMembers
    /\ Coaches = [k \in 1..AdmCoaches |->
                     [coach_name |-> CoachName(k), specialty |-> <<"s">>]]
    /\ Courses = [c \in 1..AdmCourses |->
                     [course_name |-> CourseName(c), max_capacity |-> c,
                      time_plan |-> c, coach_id |-> OwnerOf(c)]]
    /\ Registrations =
          SetToBag({Row(IntToText(AdmMembers), IntToText(c), c) : c \in 1..AdmCourses})
    /\ last = NoCall
    /\ succeeded = {}
    /\ pc = [p \in Procs |-> "idle"]
    /\ loc = [p \in Procs |-> NoLocals]
    /\ calls = 0
    /\ ui = NoSession

(* what an administrative call returned; arg is the tuple of its arguments *)
AdminReturned(op, arg, result) == [op |-> op, arg |-> arg, result |-> result]

(* every administrative call is one more call of the budget; it is its own *)
(* transaction, committed in one piece, and leaves the sessions of the     *)
(* wizard alone, whatever statement each of them has reached               *)
AdminCall ==
    /\ calls < MaxOps
    /\ calls' = calls + 1
    /\ UNCHANGED <<succeeded, pc, loc, ui>>

(* the rows the ORM loads through Courses.registration, resp.              *)
(* Members.registration, to delete them with their parent: the parent's    *)
(* integer key is bound to a comparison with the TEXT column               *)
registration_of_course(regs, c) ==
    {r \in BagToSet(regs) : r.course_id = IntToText(c)}
registration_of_member(regs, m) ==
    {r \in BagToSet(regs) : r.member_id = IntToText(m)}

(* the courses the ORM loads through Coaches.course, a relationship        *)
(* annotated Optional["Courses"]: a scalar, so of several rows the query   *)
(* returns only one is kept, and none is loaded when there is none         *)
course_of_coach(k) ==
    LET owned == {c \in DOMAIN Courses : Courses[c].coach_id = k} IN
    IF owned = {} THEN {{}} ELSE {{c} : c \in owned}

delete_coach(coach_id) ==
    /\ AdminCall
    /\ IF coach_id \notin DOMAIN Coaches
       THEN /\ last' = AdminReturned("delete_coach", <<IntVal(coach_id)>>, "NotFound")
            /\ UNCHANGED <<Members, Courses, Coaches, Accesscards, Registrations>>
       ELSE \E loaded \in course_of_coach(coach_id) :
            /\ Coaches' = Restrict(Coaches, DOMAIN Coaches \ {coach_id})
            /\ Courses' = Restrict(Courses, DOMAIN Courses \ loaded)
            /\ Registrations' =
                  WithoutRows(Registrations,
                      UNION {registration_of_course(Registrations, c) : c \in loaded})
            /\ last' = AdminReturned("delete_coach", <<IntVal(coach_id)>>, "Success")
            /\ UNCHANGED <<Members, Accesscards>>

(* Courses.course_id == number in the store: an INTEGER column compared    *)
(* with the value bound; a text that is not a number equals no id          *)
course_id_equals(c, number) ==
    CASE number.kind = "int"  -> c = number.val
      [] number.kind = "str"  -> IsIntText(number.text) /\ c = PyInt(number)
      [] number.kind = "none" -> FALSE

delete_course(number) ==
    LET found == {c \in DOMAIN Courses : course_id_equals(c, number)} IN
    /\ AdminCall
    /\ IF found = {}
       THEN /\ last' = AdminReturned("delete_course", <<number>>, "NotFound")
            /\ UNCHANGED <<Members, Courses, Coaches, Accesscards, Registrations>>
       ELSE /\ Courses' = Restrict(Courses, DOMAIN Courses \ found)
            /\ Registrations' =
                  WithoutRows(Registrations,
                      UNION {registration_of_course(Registrations, c) : c \in found})
            /\ last' = AdminReturned("delete_course", <<number>>, "Success")
            /\ UNCHANGED <<Members, Coaches, Accesscards>>

(* one_or_none() on the name: no row, one row, or MultipleResultsFound,    *)
(* which the handler reports as a storage error                            *)
delete_member(name) ==
    LET found == {m \in DOMAIN Members : Members[m].member_name = name} IN
    /\ AdminCall
    /\ IF Cardinality(found) # 1
       THEN /\ last' = AdminReturned("delete_member", <<StrVal(name)>>,
                          IF found = {} THEN "NotFound" ELSE "StorageError")
            /\ UNCHANGED <<Members, Courses, Coaches, Accesscards, Registrations>>
       ELSE LET m == CHOOSE x \in found : TRUE IN
            /\ Members' = Restrict(Members, DOMAIN Members \ {m})
            /\ Registrations' =
                  WithoutRows(Registrations, registration_of_member(Registrations, m))
            /\ last' = AdminReturned("delete_member", <<StrVal(name)>>, "Success")
            /\ UNCHANGED <<Courses, Coaches, Accesscards>>

(* datetime.datetime.fromisoformat(date) for a date written YYYY-MM-DD:    *)
(* "ok", "ValueError" for any other text, "TypeError" for a non-string     *)
IsIsoText(t) ==
    /\ Len(t) = 10
    /\ t[5] = "-" /\ t[8] = "-"
    /\ \A i \in {1, 2, 3, 4, 6, 7, 9, 10} : t[i] \in DigitSet
    /\ DigitsValue(SubSeq(t, 1, 4)) >= 1
    /\ DigitsValue(SubSeq(t, 6, 7)) \in 1..12
    /\ DigitsValue(SubSeq(t, 9, 10)) \in 1..31

fromisoformat_outcome(date) ==
    CASE date.kind = "str"  -> IF IsIsoText(date.text) THEN "ok" ELSE "ValueError"
      [] date.kind = "int"  -> "TypeError"
      [] date.kind = "none" -> "TypeError"

(* the moment the text denotes, as the number yyyymmdd *)
fromisoformat(date) ==
    DigitsValue(SubSeq(date.text, 1, 4) \o SubSeq(date.text, 6, 7)
                \o SubSeq(date.text, 9, 10))

(* a variant that keeps the member row when the card is refused *)
add_member_partial(name, mail, access) ==
    /\ AdminCall
    /\ Members' = [m \in DOMAIN Members \cup {NextId(Members)} |->
                      IF m \in DOMAIN Members THEN Members[m]
                      ELSE [member_name |-> name, email |-> mail,
                            access_card_id |-> access]]
    /\ Accesscards' = Accesscards \cup {access}
    /\ last' = AdminReturned("add_member", <<StrVal(name)>>,
                             IF access \in Accesscards THEN "StorageError"
                             ELSE "Success")
    /\ UNCHANGED <<Courses, Coaches, Registrations>>

(* the member and its card go into the store in one commit; a card_id that *)
(* is already there violates the primary key and the commit is rolled back *)
add_member(name, mail, access) ==
    /\ AdminCall
    /\ IF access \in Accesscards
       THEN /\ last' = AdminReturned("add_member", <<StrVal(name)>>, "StorageError")
            /\ UNCHANGED <<Members, Courses, Coaches, Accesscards, Registrations>>
       ELSE /\ Members' = [m \in DOMAIN Members \cup {NextId(Members)} |->
                              IF m \in DOMAIN Members THEN Members[m]
                              ELSE [member_name |-> name, email |-> mail,
                                    access_card_id |-> access]]
            /\ Accesscards' = Accesscards \cup {access}
            /\ last' = AdminReturned("add_member", <<StrVal(name)>>, "Success")
            /\ UNCHANGED <<Courses, Coaches, Registrations>>

add_coach(name, specialty) ==
    /\ AdminCall
    /\ Coaches' = [k \in DOMAIN Coaches \cup {NextId(Coaches)} |->
                      IF k \in DOMAIN Coaches THEN Coaches[k]
                      ELSE [coach_name |-> name, specialty |-> specialty]]
    /\ last' = AdminReturned("add_coach", <<StrVal(name)>>, "Success")
    /\ UNCHANGED <<Members, Courses, Accesscards, Registrations>>

(* the date is converted inside a try that catches storage errors only;    *)
(* the coach_id is stored as given                                         *)
add_course(name, date, max_participants, coach_id) ==
    /\ AdminCall
    /\ IF fromisoformat_outcome(date) # "ok"
       THEN /\ last' = AdminReturned("add_course", <<StrVal(name), date>>,
                               fromisoformat_outcome(date))
            /\ UNCHANGED <<Members, Courses, Coaches, Accesscards, Registrations>>
       ELSE /\ Courses' = [c \in DOMAIN Courses \cup {NextId(Courses)} |->
                              IF c \in DOMAIN Courses THEN Courses[c]
                              ELSE [course_name |-> name,
                                    max_capacity |-> max_participants,
                                    time_plan |-> fromisoformat(date),
                                    coach_id |-> coach_id]]
            /\ last' = AdminReturned("add_course", <<StrVal(name), date>>, "Success")
            /\ UNCHANGED <<Members, Coaches, Accesscards, Registrations>>

(* new_name is not None and new_name.strip() *)
GivenAndNotBlank(x) == x.kind = "str" /\ Strip(x.text) # <<>>

(* if new_name: *)
Truthy(x) == x.kind = "str" /\ x.text # <<>>

update_members(member_id, new_name, new_mail) ==
    /\ AdminCall
    /\ IF ~GivenAndNotBlank(new_name) /\ ~GivenAndNotBlank(new_mail)
       THEN /\ last' = AdminReturned("update_members",
                               <<IntVal(member_id), new_name, new_mail>>,
                               "NoFieldsToUpdate")
            /\ Members' = Members
       ELSE IF member_id \notin DOMAIN Members
       THEN /\ last' = AdminReturned("update_members",
                               <<IntVal(member_id), new_name, new_mail>>, "NotFound")
            /\ Members' = Members
       ELSE /\ Members' =
                 [Members EXCEPT ![member_id] =
                     [member_name |-> IF GivenAndNotBlank(new_name)
                                      THEN new_name.text ELSE @.member_name,
                      email |-> IF GivenAndNotBlank(new_mail)
                                THEN new_mail.text ELSE @.email,
                      access_card_id |-> @.access_card_id]]
            /\ last' = AdminReturned("update_members",
                               <<IntVal(member_id), new_name, new_mail>>, "Success")
    /\ UNCHANGED <<Courses, Coaches, Accesscards, Registrations>>

(* the commit and the success message do not depend on a field being given *)
modify_coach(coach_id, new_name, new_specialty) ==
    /\ AdminCall
    /\ IF coach_id \notin DOMAIN Coaches
       THEN /\ last' = AdminReturned("modify_coach",
                               <<IntVal(coach_id), new_name, new_specialty>>, "NotFound")
            /\ Coaches' = Coaches
       ELSE /\ Coaches' =
                 [Coaches EXCEPT ![coach_id] =
                     [coach_name |-> IF Truthy(new_name)
                                     THEN new_name.text ELSE @.coach_name,
                      specialty |-> IF Truthy(new_specialty)
                                    THEN new_specialty.text ELSE @.specialty]]
            /\ last' = AdminReturned("modify_coach",
                               <<IntVal(coach_id), new_name, new_specialty>>, "Success")
    /\ UNCHANGED <<Members, Courses, Accesscards, Registrations>>

(* Directory queries: the listings the pages compute from the store *)

(* the keys of a table in the order select() returns its rows *)
RECURSIVE InKeyOrder(_)
InKeyOrder(S) ==
    IF S = {} THEN <<>>
    ELSE LET least == CHOOSE x \in S : \A y \in S : x <= y
         IN <<least>> \o InKeyOrder(S \ {least})

Availability_le(reg_count, max_capacity) ==
    IF reg_count <= max_capacity THEN "Available" ELSE "Full"

(* 'Available' if reg_count < row.max_capacity else 'Full' *)
Availability(reg_count, max_capacity) ==
    IF reg_count < max_capacity THEN "Available" ELSE "Full"

(* app_members.courses_list(): one row for each course *)
courses_list ==
    LET ids == InKeyOrder(DOMAIN Courses) IN
    [i \in 1..Len(ids) |->
        LET reg_count == registration_count(Registrations, ids[i]) IN
        [course_id |-> ids[i],
         course_name |-> Courses[ids[i]].course_name,
         time_plan |-> Courses[ids[i]].time_plan,
         max_capacity |-> Courses[ids[i]].max_capacity,
         coach_id |-> Courses[ids[i]].coach_id,
         current_registrations |-> reg_count,
         availability |-> Availability(reg_count, Courses[ids[i]].max_capacity)]]

(* course_registration.get_available_courses(): a row is appended only     *)
(* when the coach of the course is found                                   *)
get_available_courses ==
    LET coached(c) == Courses[c].coach_id \in DOMAIN Coaches
        ids == SelectSeq(InKeyOrder(DOMAIN Courses), coached)
    IN
    [i \in 1..Len(ids) |->
        LET reg_count == registration_count(Registrations, ids[i]) IN
        [course_id |-> ids[i],
         time_plan |-> Courses[ids[i]].time_plan,
         max_capacity |-> Courses[ids[i]].max_capacity,
         coach_name |-> Coaches[Courses[ids[i]].coach_id].coach_name,
         current_participants |-> reg_count,
         availability |-> Availability(reg_count, Courses[ids[i]].max_capacity)]]

(* manage_courses.course_list(): one row for each course, the coach shown  *)
(* as "Unknown" when its row is missing                                    *)
course_list ==
    LET ids == InKeyOrder(DOMAIN Courses) IN
    [i \in 1..Len(ids) |->
        LET reg_count == registration_count(Registrations, ids[i]) IN
        [course_id |-> ids[i],
         coach_id |-> Courses[ids[i]].coach_id,
         coach_name |-> IF Courses[ids[i]].coach_id \in DOMAIN Coaches
                        THEN Coaches[Courses[ids[i]].coach_id].coach_name
                        ELSE <<"U", "n", "k", "n", "o", "w", "n">>,
         time_plan |-> Courses[ids[i]].time_plan,
         max_capacity |-> Courses[ids[i]].max_capacity,
         total_participants |-> reg_count,
         status |-> IF reg_count > 0 THEN "Active" ELSE "Scheduled"]]

(* manage_members.member_list(): the registrations are counted per value  *)
(* of the TEXT column member_id, and each member is given the count found  *)
(* under str(member_id), 0 when there is none                              *)
reg_counts ==
    [t \in {r.member_id : r \in BagToSet(Registrations)} |->
        BagCardinality([r \in {x \in BagToSet(Registrations) : x.member_id = t}
                           |-> Registrations[r]])]

member_list ==
    LET ids == InKeyOrder(DOMAIN Members) IN
    [i \in 1..Len(ids) |->
        LET reg_total == IF IntToText(ids[i]) \in DOMAIN reg_counts
                         THEN reg_counts[IntToText(ids[i])] ELSE 0 IN
        [member_id |-> ids[i],
         member_name |-> Members[ids[i]].member_name,
         email |-> Members[ids[i]].email,
         access_card_id |-> Members[ids[i]].access_card_id,
         total_registrations |-> reg_total,
         status |-> IF reg_total > 0 THEN "Active" ELSE "Inactive"]]

(* utils.historic_registrations(name): the rows whose member_id equals     *)
(* str(id) of the first member of that name, no row if there is none       *)
historic_registrations(name) ==
    LET named == {m \in DOMAIN Members : Members[m].member_name = name} IN
    IF named = {} THEN EmptyBag
    ELSE LET name_id == IntToText(InKeyOrder(named)[1]) IN
         [r \in {x \in BagToSet(Registrations) : x.member_id = name_id}
             |-> Registrations[r]]

(* Messages and their presentation. A returned message is the words of    *)
(* the f-string, in lower case, and the texts interpolated into it.        *)
Words(op, result) ==
    CASE op = "register" /\ result = "Success" ->
            {"member", "successfully", "registered"}
      [] op = "register" /\ result = "MemberNotFound" ->
            {"member", "with", "id", "not", "found"}
      [] op = "register" /\ result = "CourseNotFound" ->
            {"course", "with", "id", "not", "found"}
      [] op = "register" /\ result = "CourseFull" -> {"course", "is", "full"}
      [] op = "register" /\ result = "Duplicate" ->
            {"member", "is", "already", "registered", "for", "this", "course"}
      [] op = "register" /\ result = "InvalidInput" -> {"invalid", "input"}
      [] op = "add_member" /\ result = "Success" ->
            {"addition", "of", "the", "new", "member", "successful"}
      [] op = "add_member" /\ result = "StorageError" ->
            {"error", "adding", "member"}
      [] op = "add_course" /\ result = "Success" ->
            {"addition", "of", "the", "course", "at", "with", "coach"}
      [] op = "delete_member" /\ result = "Success" ->
            {"the", "member", "has", "been", "removed", "from", "database"}
      [] op = "delete_member" /\ result = "NotFound" ->
            {"no", "member", "found", "with", "name"}
      [] op = "delete_member" /\ result = "StorageError" ->
            {"error", "deleting", "member"}
      [] op = "delete_course" /\ result = "Success" ->
            {"the", "course", "has", "been", "removed", "from", "database"}
      [] op = "delete_course" /\ result = "NotFound" ->
            {"no", "course", "found", "with", "id"}
      [] op = "update_members" /\ result = "Success" ->
            {"member", "id", "updated", "successfully"}
      [] op = "update_members" /\ result = "NoFieldsToUpdate" ->
            {"no", "fields", "to", "update"}
      [] op = "update_members" /\ result = "NotFound" ->
            {"no", "member", "with", "id", "was", "found"}
      [] OTHER -> {}

(* the texts a call interpolates into its message *)
Interpolated(l) ==
    IF l.op = "register" THEN {PyStr(l.id_member), PyStr(l.id_course)}
    ELSE IF l.op = "none" THEN {}
    ELSE {PyStr(l.arg[i]) : i \in DOMAIN l.arg}

(* the letters of the words the pages look for *)
Letters(word) ==
    CASE word = "successfully" ->
            <<"s", "u", "c", "c", "e", "s", "s", "f", "u", "l", "l", "y">>
      [] word = "successful" ->
            <<"s", "u", "c", "c", "e", "s", "s", "f", "u", "l">>
      [] word = "removed" -> <<"r", "e", "m", "o", "v", "e", "d">>
      [] word = "deleted" -> <<"d", "e", "l", "e", "t", "e", "d">>

(* needle in text *)
InText(needle, text) ==
    \E i \in 0..(Len(text) - Len(needle)) :
        SubSeq(text, i + 1, i + Len(needle)) = needle

(* word in result.lower(), for the call l that returned the message *)
InMessage(word, l) ==
    \/ word \in Words(l.op, l.result)
    \/ word = "successful" /\ "successfully" \in Words(l.op, l.result)
    \/ \E text \in Interpolated(l) : InText(Letters(word), text)

(* the page shows st.success for the call l *)
ShowsSuccess(l) ==
    CASE l.result \in {"TypeError", "ValueError"} -> FALSE
      [] l.op \in {"register", "add_course"} -> InMessage("successfully", l)
      [] l.op \in {"add_member", "update_members"} -> InMessage("successful", l)
      [] l.op = "delete_member" -> InMessage("removed", l)
      [] l.op = "delete_course" -> InMessage("removed", l) \/ InMessage("deleted", l)
      [] l.op \in {"add_coach", "delete_coach", "modify_coach"} -> l.result = "Success"
      [] OTHER -> FALSE

(* the arguments of the administrative calls: ids and names of the club,  *)
(* and one of each that names nothing                                      *)
IsoDate == StrVal(<<"2", "0", "2", "5", "-", "0", "1", "-", "0", "4">>)
DeleteCoachArgs  == {1, AdmCoaches, AdmCoaches + 1}
DeleteCourseArgs == {1, AdmCourses, AdmCourses + 1}
MemberNameArgs   == {MemberName(1), MemberName(AdmMembers), <<"x">>}
AccessArgs       == {1, AdmMembers + 1}
DateArgs         == {IsoDate, StrVal(<<"x">>), NoneVal}
OptionalTextArgs == {NoneVal, StrVal(<<>>), StrVal(<<" ">>), StrVal(<<"n">>)}

DeleteCoach  == \E coach_id \in DeleteCoachArgs : delete_coach(coach_id)
DeleteCourse == \E number \in DeleteCourseArgs : delete_course(IntVal(number))

(* the Remove Course form of the admin course page: the course picked in   *)
(* the listing is handed to delete_course by its name                      *)
delete_course_form(c) == delete_course(StrVal(Courses[c].course_name))

RemoveCourse == \E c \in DOMAIN Courses : delete_course_form(c)
DeleteMember == \E name \in MemberNameArgs : delete_member(name)
AddMember ==
    \E name \in {MemberName(1), <<"x">>}, access \in AccessArgs :
        add_member(name, <<"e">>, access)
AddCoach == add_coach(<<"x">>, <<"s">>)
AddCourse ==
    \E date \in DateArgs, coach_id \in {1, AdmCoaches + 1} :
        add_course(<<"x">>, date, 1, coach_id)
UpdateMember ==
    \E member_id \in {1, AdmMembers + 1},
       new_name \in OptionalTextArgs, new_mail \in {NoneVal, StrVal(<<"f">>)} :
        update_members(member_id, new_name, new_mail)
ModifyCoach ==
    \E coach_id \in {1, AdmCoaches + 1},
       new_name \in OptionalTextArgs, new_specialty \in {NoneVal, StrVal(<<"t">>)} :
        modify_coach(coach_id, new_name, new_specialty)

(* the wizard books the first member, who types the id as "1" or as "01",  *)
(* on the second course                                                    *)
AdminRegister ==
    \E id_member \in {StrVal(IntToText(1)), StrVal(<<"0">> \o IntToText(1))} :
        registrations(id_member, IntVal(2)) /\ UNCHANGED ui

NextAdmin ==
    \/ AdminRegister
    \/ AddMember
    \/ AddCoach
    \/ AddCourse
    \/ DeleteMember
    \/ DeleteCourse
    \/ RemoveCourse
    \/ DeleteCoach
    \/ UpdateMember
    \/ ModifyCoach

SpecAdmin == InitAdmin /\ [][NextAdmin]_vars

----------------------------------------------------------------------------
(* Populating: create_registrations of populate_db.py on a club that has   *)
(* members and courses and no registration yet.                            *)

PopulateCount == 4

(* fake.date_time_between(start_date="-180d", end_date="now"): a moment    *)
(* before every course of the club                                         *)
PastDates == {0}

InitPopulate ==
    /\ Members = [m \in 1..AdmMembers |->
                     [member_name |-> MemberName(m), email |-> <<"e">>,
                      access_card_id |-> m]]
    /\ Accesscards = 1..AdmMembers
    /\ Coaches = [k \in 1..AdmCoaches |->
                     [coach_name |-> CoachName(k), specialty |-> <<"s">>]]
    /\ Courses = [c \in 1..AdmCourses |->
                     [course_name |-> CourseName(c), max_capacity |-> CapacityThreshold,
                      time_plan |-> c, coach_id |-> OwnerOf(c)]]
    /\ Registrations = EmptyBag
    /\ last = NoCall
    /\ succeeded = {}
    /\ pc = [p \in Procs |-> "idle"]
    /\ loc = [p \in Procs |-> NoLocals]
    /\ calls = 0
    /\ ui = NoSession

(* one turn of the loop: a random member, a random course, the row added   *)
(* and flushed; the table has no uniqueness constraint for the flush to    *)
(* trip over                                                               *)
create_registrations_turn ==
    /\ last.op = "none"
    /\ calls < PopulateCount
    /\ \E member \in DOMAIN Members, course \in DOMAIN Courses, reg_dt \in PastDates :
          Registrations' = Registrations
               (+) SetToBag({Row(IntToText(member), IntToText(course), reg_dt)})
    /\ calls' = calls + 1
    /\ UNCHANGED <<Members, Courses, Coaches, Accesscards, last, succeeded, pc, loc, ui>>

(* the loop is over: session.commit() *)
create_registrations_commit ==
    /\ last.op = "none"
    /\ calls = PopulateCount
    /\ last' = AdminReturned("create_registrations", <<>>, "Success")
    /\ UNCHANGED <<Members, Courses, Coaches, Accesscards, Registrations, succeeded,
                   pc, loc, calls, ui>>

NextPopulate ==
    \/ create_registrations_turn
    \/ create_registrations_commit

SpecPopulate == InitPopulate /\ [][NextPopulate]_vars

----------------------------------------------------------------------------
(* One browser session of the Streamlit application. Every user event is   *)
(* one run of main.py and of the page it navigates to; st.session_state    *)
(* (role, df, stage, id_member, course_id) lives as long as the session.   *)

MemberPages == {"app_members", "course_registration", "settings"}
AdminPages == {"manage_coaches", "manage_courses", "manage_members",
               "view_registered_users", "settings"}

PagesOf(role) ==
    CASE role = "Member" -> MemberPages
      [] role = "Admin" -> AdminPages
      [] OTHER -> {}

(* the page declared with default=True *)
DefaultPage(role) == IF role = "Member" THEN "app_members" ELSE "manage_coaches"

(* utils.all_coach_info() *)
all_coach_info ==
    LET ids == InKeyOrder(DOMAIN Coaches) IN
    [i \in 1..Len(ids) |->
        [coach_id |-> ids[i],
         coach_name |-> Coaches[ids[i]].coach_name,
         specialty |-> Coaches[ids[i]].specialty]]

DfCourses == [kind |-> "courses", rows |-> courses_list]
DfCoaches == [kind |-> "coaches", rows |-> all_coach_info]
DfMembers == [kind |-> "members", rows |-> member_list]

(* what the script of a page leaves under the key df *)
PageDf(page, df) ==
    CASE page = "app_members" -> IF df = NoDf THEN DfCourses ELSE df
      [] page = "manage_coaches" -> IF df = NoDf THEN DfCoaches ELSE df
      [] page = "manage_members" -> DfMembers
      [] OTHER -> df

(* a run of a page that touches nothing but the session *)
SessionOnly ==
    UNCHANGED <<Members, Courses, Coaches, Accesscards, Registrations, last,
                succeeded, pc, loc, calls>>

(* main.login: the role is stored, the rerun shows the default page *)
Login ==
    /\ ui.role = "none"
    /\ \E role \in {"Member", "Admin"} :
          ui' = [ui EXCEPT !.role = role, !.page = DefaultPage(role),
                           !.df = PageDf(DefaultPage(role), ui.df),
                           !.event = "login", !.shown = "none"]
    /\ SessionOnly

(* main.logout: only the role is reset *)
Logout ==
    /\ ui.role # "none"
    /\ ui' = [ui EXCEPT !.role = "none", !.page = "login",
                        !.event = "logout", !.shown = "none"]
    /\ SessionOnly

(* st.navigation: another page of the role is opened from the sidebar *)
Navigate ==
    /\ \E page \in PagesOf(ui.role) \ {ui.page} :
          ui' = [ui EXCEPT !.page = page, !.df = PageDf(page, ui.df),
                           !.event = "navigate", !.shown = "none"]
    /\ SessionOnly

(* app_members: "Refresh Courses" *)
RefreshCourses ==
    /\ ui.role = "Member" /\ ui.page = "app_members"
    /\ ui' = [ui EXCEPT !.df = DfCourses, !.event = "refresh", !.shown = "none"]
    /\ SessionOnly

(* manage_coaches: "Refresh Data", drawn when df is not empty *)
RefreshCoaches ==
    /\ ui.role = "Admin" /\ ui.page = "manage_coaches"
    /\ ui.df.rows # <<>>
    /\ ui' = [ui EXCEPT !.df = DfCoaches, !.event = "refresh", !.shown = "none"]
    /\ SessionOnly

(* the member ids typed into the wizard *)
WizardMemberArgs == {StrVal(IntToText(1)), StrVal(<<"x">>)}

(* app_members, stage 0: form personal_details *)
SubmitPersonal ==
    /\ ui.role = "Member" /\ ui.page = "app_members" /\ ui.stage = 0
    /\ \E id_member \in WizardMemberArgs :
          ui' = [ui EXCEPT !.id_member = id_member, !.stage = 1,
                           !.event = "personal_details", !.shown = "none"]
    /\ SessionOnly

(* app_members, stage 1: form choose_program; the select box offers every  *)
(* row of courses_list()                                                   *)
ChooseCourse ==
    /\ ui.role = "Member" /\ ui.page = "app_members" /\ ui.stage = 1
    /\ \E i \in DOMAIN courses_list :
          /\ courses_list[i].course_id # 0
          /\ ui' = [ui EXCEPT !.course_id = IntVal(courses_list[i].course_id),
                              !.stage = 2,
                              !.event = "choose_program", !.shown = "none"]
    /\ SessionOnly

(* app_members: "Back" of stage 1, "Back to Course Selection" of stage 2 *)
Back ==
    /\ ui.role = "Member" /\ ui.page = "app_members" /\ ui.stage \in {1, 2}
    /\ ui' = [ui EXCEPT !.stage = ui.stage - 1, !.event = "back", !.shown = "none"]
    /\ SessionOnly

(* app_members, stage 2: "Confirm Registration". The cards of this run     *)
(* were drawn from df before the button is handled; df is not assigned.    *)
ConfirmRegistration ==
    /\ ui.role = "Member" /\ ui.page = "app_members" /\ ui.stage = 2
    /\ registrations(ui.id_member, ui.course_id)
    /\ ui' = [ui EXCEPT !.stage = IF ShowsSuccess(last') THEN 0 ELSE ui.stage,
                        !.event = "confirm",
                        !.shown = IF ShowsSuccess(last') THEN "registered"
                                  ELSE "error"]

(* course_registration: "Register for <course>" under a card whose         *)
(* availability is 'Available'                                             *)
BrowseRegister ==
    /\ ui.role = "Member" /\ ui.page = "course_registration"
    /\ \E i \in DOMAIN get_available_courses :
          /\ get_available_courses[i].availability = "Available"
          /\ ui' = [ui EXCEPT !.event = "browse_register", !.shown = "registered"]
    /\ SessionOnly

NextSession ==
    \/ Login
    \/ Logout
    \/ Navigate
    \/ RefreshCourses
    \/ RefreshCoaches
    \/ SubmitPersonal
    \/ ChooseCourse
    \/ Back
    \/ ConfirmRegistration
    \/ BrowseRegister

SpecSession == InitAdmin /\ [][NextSession]_vars

----------------------------------------------------------------------------
(* registrations() of one session running while an administrator deletes:  *)
(* the deletion is committed between two statements of the registration.   *)

RaceMemberArgs == {StrVal(IntToText(1))}

RaceCourseArgs == {IntVal(c) : c \in 1..AdmCourses}

RaceStart ==
    \E p \in Procs, id_member \in RaceMemberArgs, id_course \in RaceCourseArgs :
        RegStart(p, id_member, id_course)

NextRace ==
    \/ RaceStart
    \/ CheckCourse
    \/ CheckCapacity
    \/ CheckExisting
    \/ Commit
    \/ DeleteCourse
    \/ DeleteMember
    \/ DeleteCoach

SpecRace == InitAdmin /\ [][NextRace]_vars

----------------------------------------------------------------------------
(* Vocabulary of the claims *)

(* the member and the course a row belongs to: the ids that passed the     *)
(* existence checks of the call that wrote it                              *)
MemberOfRow(r) == DigitsValue(Strip(r.member_id))
CourseOfRow(r) == DigitsValue(Strip(r.course_id))

(* number of Registrations of member m for course c *)
BookingsOf(regs, m, c) ==
    BagCardinality(
        [r \in {x \in BagToSet(regs) : MemberOfRow(x) = m /\ CourseOfRow(x) = c}
            |-> regs[r]])

(* the store holds a member, resp. a course, with the id the argument denotes *)
MemberExists(id_member) == \E m \in DOMAIN Members : m = PyInt(id_member)
CourseExists(id_course) == \E c \in DOMAIN Courses : c = PyInt(id_course)

(* the step is a call of registrations() that returned *)
RegisterStep == last'.op = "register"

(* ... whose two ids both convert to int *)
ConvertibleStep ==
    /\ RegisterStep
    /\ ConversionOutcome(last'.id_member, last'.id_course) = "ok"

(* ... and name a member and a course of the store *)
KnownStep ==
    /\ ConvertibleStep
    /\ MemberExists(last'.id_member)
    /\ CourseExists(last'.id_course)

CountBefore == registration_count(Registrations, PyInt(last'.id_course))
CountAfter  == registration_count(Registrations', PyInt(last'.id_course))

----------------------------------------------------------------------------
(* C1 (as claimed): capacity invariant - every course holds at most its    *)
(* own max_capacity Registrations after any sequence of register calls.    *)
C1_CapacityInvariant ==
    \A c \in DOMAIN Courses :
        registration_count(Registrations, c) <= Courses[c].max_capacity

(* C2 (as claimed): register for an existing member and an existing course *)
(* whose count is already >= its own max_capacity returns CourseFull and   *)
(* leaves the count unchanged.                                             *)
C2_FullCourseRejected ==
    [][(KnownStep /\ CountBefore >= Courses[PyInt(last'.id_course)].max_capacity)
         => (last'.result = "CourseFull" /\ CountAfter = CountBefore)]_vars

(* C3 (as claimed): register succeeds and the count grows by exactly one   *)
(* whenever member and course exist, the member holds no Registration for  *)
(* the course and the count is below the course's own max_capacity.        *)
C3_SucceedsBelowCapacity ==
    [][(/\ KnownStep
        /\ BookingsOf(Registrations, PyInt(last'.id_member), PyInt(last'.id_course)) = 0
        /\ CountBefore < Courses[PyInt(last'.id_course)].max_capacity)
         => (last'.result = "Success" /\ CountAfter = CountBefore + 1)]_vars

(* C4 (as claimed): no duplicates - after any sequence of register calls   *)
(* run one after another, a member holds at most one Registration for a    *)
(* course.                                                                 *)
C4_NoDuplicates ==
    \A m \in DOMAIN Members : \A c \in DOMAIN Courses :
        BookingsOf(Registrations, m, c) <= 1

(* C7 (as claimed): once register(M, C) has succeeded, every later         *)
(* register(M, C) returns DuplicateRegistration and leaves the count       *)
(* unchanged, whatever the count.                                          *)
C7_RepeatIsDuplicate ==
    [][(KnownStep /\ <<last'.id_member, last'.id_course>> \in succeeded)
         => (last'.result = "Duplicate" /\ CountAfter = CountBefore)]_vars

(* C7 (amended): once register(M, C) has succeeded, every later call with  *)
(* the same two argument values fails and leaves the count unchanged: with *)
(* CourseFull when the course has reached the threshold of the capacity    *)
(* check, which comes first, and with DuplicateRegistration below it.      *)
C7_RepeatFails ==
    [][(KnownStep /\ <<last'.id_member, last'.id_course>> \in succeeded)
         => (/\ last'.result = IF CountBefore >= CapacityThreshold
                               THEN "CourseFull" ELSE "Duplicate"
             /\ CountAfter = CountBefore
             /\ Registrations' = Registrations)]_vars

(* a repeated call has been answered with DuplicateRegistration *)
C7_Witness ==
    /\ last.op = "register"
    /\ last.result = "Duplicate"
    /\ <<last.id_member, last.id_course>> \in succeeded

(* C8 (as claimed): the preconditions are evaluated in the order member,   *)
(* course, capacity, duplicate and the first failure is returned: unknown  *)
(* member with unknown course gives MemberNotFound, and a member already   *)
(* registered for a course that is full gives CourseFull.                  *)
C8_CheckOrder ==
    [][ConvertibleStep =>
         /\ ~MemberExists(last'.id_member) => last'.result = "MemberNotFound"
         /\ (MemberExists(last'.id_member) /\ ~CourseExists(last'.id_course))
               => last'.result = "CourseNotFound"
         /\ (/\ KnownStep
             /\ <<last'.id_member, last'.id_course>> \in succeeded
             /\ CountBefore >= Courses[PyInt(last'.id_course)].max_capacity)
               => last'.result = "CourseFull"]_vars

(* C9: a call whose member id or course id names nothing in the store      *)
(* returns MemberNotFound (the member is looked up first), resp.           *)
(* CourseNotFound, and the Registrations table is the same afterwards.     *)
C9_NotFoundNoMutation ==
    [][(ConvertibleStep /\ ~(MemberExists(last'.id_member) /\ CourseExists(last'.id_course)))
         => (/\ last'.result = IF MemberExists(last'.id_member)
                               THEN "CourseNotFound" ELSE "MemberNotFound"
             /\ Registrations' = Registrations)]_vars

(* an unknown member was turned away from an existing course of a store    *)
(* that holds registrations                                                *)
C9_Witness ==
    /\ last.op = "register"
    /\ last.result = "MemberNotFound"
    /\ PyIntOutcome(last.id_member) = "ok"
    /\ PyInt(last.id_member) \notin DOMAIN Members
    /\ PyIntOutcome(last.id_course) = "ok"
    /\ PyInt(last.id_course) \in DOMAIN Courses
    /\ BagCardinality(Registrations) > 0

(* C10 (as claimed): a call with a member_id or course_id that does not    *)
(* convert to int returns InvalidInput and creates no Registration.        *)
C10_InvalidInput ==
    [][(RegisterStep /\ ConversionOutcome(last'.id_member, last'.id_course) # "ok")
         => (last'.result = "InvalidInput" /\ Registrations' = Registrations)]_vars

----------------------------------------------------------------------------
(* Claims about concurrent calls, checked under SpecConc *)

(* calls that have passed the capacity check for course c and not committed *)
PastCapacityCheck(c) ==
    {p \in Procs : pc[p] \in {"dup", "insert"} /\ PyInt(loc[p].id_course) = c}

(* C5: the count is read and the row inserted in separate steps, so every  *)
(* call past the check has seen a count below the threshold whatever the   *)
(* others commit meanwhile: the course's Registrations plus the calls past *)
(* the check are bounded by the threshold plus the other sessions, not by  *)
(* the threshold (the state reached beyond it is C5_Witness).              *)
C5_OvershootBySessions ==
    /\ \A p \in Procs :
          pc[p] \in {"dup", "insert"} => loc[p].observed < CapacityThreshold
    /\ \A c \in DOMAIN Courses :
          registration_count(Registrations, c) + Cardinality(PastCapacityCheck(c))
             <= CapacityThreshold + NumProcs - 1

(* two calls for different members have both committed and the course      *)
(* holds more Registrations than the threshold of the check                *)
C5_Witness ==
    /\ \E c \in DOMAIN Courses :
          registration_count(Registrations, c) > CapacityThreshold
    /\ \A r \in BagToSet(Registrations) : Registrations[r] = 1
    /\ last.result = "Success"

(* C6 (as claimed): under every interleaving of concurrent register(M, C)  *)
(* calls at most one Registration for the pair (M, C) exists.              *)
C6_NoDuplicatesConcurrent ==
    \A r \in BagToSet(Registrations) :
        BookingsOf(Registrations, MemberOfRow(r), CourseOfRow(r)) = 1

----------------------------------------------------------------------------
(* C11: a successful register(m, c) adds exactly one Registration row,     *)
(* which references m and c and is dated with the scheduled time of c; it  *)
(* changes no Member, Course, Coach or AccessCard and keeps every earlier  *)
(* Registration. A register that fails changes nothing at all.             *)
C11_RegisterFrame ==
    [][RegisterStep =>
         /\ Members' = Members
         /\ Courses' = Courses
         /\ Coaches' = Coaches
         /\ Accesscards' = Accesscards
         /\ IF last'.result = "Success"
            THEN \E r \in BagToSet(Registrations') :
                    /\ Registrations' = Registrations (+) SetToBag({r})
                    /\ MemberOfRow(r) = PyInt(last'.id_member)
                    /\ CourseOfRow(r) = PyInt(last'.id_course)
                    /\ r.registration_date =
                          Courses[PyInt(last'.id_course)].time_plan
            ELSE Registrations' = Registrations]_vars

(* a call has succeeded and its row, dated like the course, is in a store  *)
(* that held other rows before                                             *)
C11_Witness ==
    /\ last.op = "register"
    /\ last.result = "Success"
    /\ BagCardinality(Registrations) > 1
    /\ \E r \in BagToSet(Registrations) :
          /\ r.member_id = PyStr(last.id_member)
          /\ r.course_id = PyStr(last.id_course)
          /\ r.registration_date = Courses[PyInt(last.id_course)].time_plan

----------------------------------------------------------------------------
(* the step is an administrative call op that returned result *)
AdminStep(op, result) == last'.op = op /\ last'.result = result

(* the courses coach k gives *)
CoursesOfCoach(k) == {c \in DOMAIN Courses : Courses[c].coach_id = k}

(* C12 (as claimed): after delete_coach(X) has succeeded no Course owned   *)
(* by X remains and no Registration referencing one of those Courses       *)
(* remains, while the courses of the other coaches and the registrations   *)
(* of those courses are untouched.                                         *)
C12_CoachCascade ==
    [][AdminStep("delete_coach", "Success") =>
         LET X == last'.arg[1].val IN
         /\ \A c \in DOMAIN Courses' : Courses'[c].coach_id # X
         /\ \A r \in BagToSet(Registrations') :
               CourseOfRow(r) \notin CoursesOfCoach(X)
         /\ \A c \in DOMAIN Courses \ CoursesOfCoach(X) :
               /\ c \in DOMAIN Courses'
               /\ Courses'[c] = Courses[c]
               /\ \A r \in BagToSet(Registrations) :
                     CourseOfRow(r) = c =>
                        /\ r \in BagToSet(Registrations')
                        /\ Registrations'[r] = Registrations[r]]_vars

(* C13 (as claimed): in every state reached by add_member, add_course,     *)
(* register, delete_member, delete_course and delete_coach calls run one   *)
(* after another, the member_id and the course_id of every Registration    *)
(* identify a Member and a Course of the store.                            *)
C13_ReferentialIntegrity ==
    \A r \in BagToSet(Registrations) :
        /\ MemberOfRow(r) \in DOMAIN Members
        /\ CourseOfRow(r) \in DOMAIN Courses

----------------------------------------------------------------------------
(* number of Registrations of course c *)
BookingsOfCourse(regs, c) ==
    BagCardinality([r \in {x \in BagToSet(regs) : CourseOfRow(x) = c} |-> regs[r]])

(* the availability the store calls for: Full iff the course holds at      *)
(* least max_capacity Registrations                                        *)
AvailabilityDue(c) ==
    IF BookingsOfCourse(Registrations, c) >= Courses[c].max_capacity
    THEN "Full" ELSE "Available"

RowsShowing(listing, c) == {i \in DOMAIN listing : listing[i].course_id = c}

(* a listing shows every course of the store once and nothing else *)
OneRowPerCourse(listing) ==
    /\ \A c \in DOMAIN Courses : Cardinality(RowsShowing(listing, c)) = 1
    /\ \A i \in DOMAIN listing : listing[i].course_id \in DOMAIN Courses

(* C15 (as claimed): the course listing has exactly one row for each       *)
(* Course of the store, none omitted and none repeated, each with the      *)
(* number of Registrations referencing that course, and no row for a       *)
(* course that has been deleted; this for courses_list,                    *)
(* get_available_courses and course_list alike.                            *)
C15_OneRowPerCourse ==
    /\ OneRowPerCourse(courses_list)
    /\ \A i \in DOMAIN courses_list :
          courses_list[i].current_registrations =
              BookingsOfCourse(Registrations, courses_list[i].course_id)
    /\ OneRowPerCourse(course_list)
    /\ \A i \in DOMAIN course_list :
          course_list[i].total_participants =
              BookingsOfCourse(Registrations, course_list[i].course_id)
    /\ OneRowPerCourse(get_available_courses)
    /\ \A i \in DOMAIN get_available_courses :
          get_available_courses[i].current_participants =
              BookingsOfCourse(Registrations, get_available_courses[i].course_id)

(* the Registrations of member m *)
RegistrationsOfMember(regs, m) ==
    [r \in {x \in BagToSet(regs) : MemberOfRow(x) = m} |-> regs[r]]

(* C16 (as claimed): the member listing reports for every member a         *)
(* total_registrations equal to the number of Registration rows of that    *)
(* member, and the status "Active" iff that number is > 0, else            *)
(* "Inactive".                                                             *)
C16_MemberTotals ==
    /\ \A m \in DOMAIN Members : \E i \in DOMAIN member_list :
          member_list[i].member_id = m
    /\ \A i \in DOMAIN member_list :
          LET n == BagCardinality(
                      RegistrationsOfMember(Registrations, member_list[i].member_id))
          IN /\ member_list[i].total_registrations = n
             /\ member_list[i].status = IF n > 0 THEN "Active" ELSE "Inactive"

(* the names a history can be asked for: those of the store and one more *)
HistoryNames == {Members[m].member_name : m \in DOMAIN Members} \cup MemberNameArgs

(* C17 (as claimed): registration_history(name) returns exactly the        *)
(* Registrations of the first member whose name is name, and the empty     *)
(* list when no member has that name or that member has no registrations.  *)
C17_HistoryOfFirstMember ==
    \A name \in HistoryNames :
        LET named == {m \in DOMAIN Members : Members[m].member_name = name} IN
        historic_registrations(name) =
            IF named = {} THEN EmptyBag
            ELSE RegistrationsOfMember(Registrations, InKeyOrder(named)[1])

(* the step is a call of update_members or modify_coach that was given     *)
(* neither of its two optional fields                                      *)
UpdateWithoutFields ==
    /\ last'.op \in {"update_members", "modify_coach"}
    /\ last'.arg[2].kind = "none"
    /\ last'.arg[3].kind = "none"

(* C18 (as claimed): update_member and update_coach called with no field   *)
(* supplied change nothing in the store and return NoFieldsToUpdate, a     *)
(* result that is not the one of a successful update.                      *)
C18_NoFieldsToUpdate ==
    [][UpdateWithoutFields =>
         /\ last'.result = "NoFieldsToUpdate"
         /\ last'.result # "Success"
         /\ UNCHANGED <<Members, Courses, Coaches, Accesscards, Registrations>>]_vars

(* the exceptions that leave an operation instead of a returned result *)
Raised == {"TypeError", "ValueError"}

(* C19 (as claimed): no public operation propagates a fault to its         *)
(* caller; a malformed or missing argument and a storage error alike are   *)
(* returned as a failure message or an empty result.                       *)
C19_NoFaultPropagates == last.result \notin Raised

(* C20 (as claimed): for every mutating operation the message returned on  *)
(* success is told apart from every failure message, and the page shows    *)
(* its success indicator if and only if the mutation was committed to the  *)
(* store.                                                                  *)
C20_SuccessShownIffCommitted ==
    last.op # "none" => (ShowsSuccess(last) <=> last.result = "Success")

----------------------------------------------------------------------------
(* C21: no operation leaves the store partially applied. add_member        *)
(* creates the Member and its AccessCard together or, when it fails (the   *)
(* card id is in use), creates neither; and an administrative call that    *)
(* returns a failure has changed no table.                                 *)
C21_AddMemberAtomic ==
    [][/\ last'.op = "add_member" =>
            IF last'.result = "Success"
            THEN /\ Cardinality(DOMAIN Members' \ DOMAIN Members) = 1
                 /\ Cardinality(Accesscards' \ Accesscards) = 1
                 /\ \A m \in DOMAIN Members' \ DOMAIN Members :
                       Members'[m].access_card_id \in Accesscards' \ Accesscards
                 /\ \A m \in DOMAIN Members : Members'[m] = Members[m]
                 /\ Accesscards \subseteq Accesscards'
            ELSE Members' = Members /\ Accesscards' = Accesscards
       /\ (last'.op \notin {"none", "register"} /\ last'.result # "Success")
            => UNCHANGED <<Members, Courses, Coaches, Accesscards, Registrations>>
      ]_vars

(* add_member was refused because the card id is in use, and another call  *)
(* had added a member with a card before                                   *)
C21_Witness ==
    /\ last.op = "add_member"
    /\ last.result = "StorageError"
    /\ \E m \in DOMAIN Members :
          /\ m > AdmMembers
          /\ Members[m].access_card_id \in Accesscards

(* the step is the Remove Course form confirmed for the course c *)
RemoveCourseStep(c) ==
    /\ last'.op = "delete_course"
    /\ last'.arg[1] = StrVal(Courses[c].course_name)

(* C22 (as claimed): confirming Remove Course for a course picked from the *)
(* listing of the admin course page removes that course and all of its     *)
(* registrations from the store.                                           *)
C22_RemoveCourseForm ==
    [][\A c \in DOMAIN Courses :
          RemoveCourseStep(c) =>
             /\ c \notin DOMAIN Courses'
             /\ \A r \in BagToSet(Registrations') : CourseOfRow(r) # c]_vars

(* C23 (as claimed): after create_registrations has run, whatever members  *)
(* and courses it drew, no (member_id, course_id) pair has more than one   *)
(* Registration in the store.                                              *)
C23_PopulateNoDuplicates ==
    last.op = "create_registrations" =>
        \A m \in DOMAIN Members : \A c \in DOMAIN Courses :
            BookingsOf(Registrations, m, c) <= 1

----------------------------------------------------------------------------
(* C24 (as claimed): the wizard never reaches the review stage (stage 2)   *)
(* with a course stored as course_id whose availability is "Full".         *)
C24_NoFullCourseAtReview ==
    (ui.stage = 2 /\ ui.event = "choose_program") =>
        \A i \in DOMAIN courses_list :
            IntVal(courses_list[i].course_id) = ui.course_id =>
                courses_list[i].availability # "Full"

----------------------------------------------------------------------------
(* C26 (as claimed): a registration success confirmation is shown to a     *)
(* member only by a user action that created a Registration row; no user   *)
(* action shows it and leaves the registration ledger unchanged.           *)
C26_ConfirmationMeansRow ==
    [][ui'.shown = "registered" => Registrations' # Registrations]_vars

----------------------------------------------------------------------------
(* C28 (as claimed): whenever the coach-management page or the member      *)
(* course-registration page is rendered, the session entry df holds that   *)
(* page's own dataset: the coach listing, resp. the course listing.        *)
C28_DfIsThePagesOwn ==
    /\ ui.page = "manage_coaches" => ui.df.kind = "coaches"
    /\ ui.page = "app_members" => ui.df.kind = "courses"

----------------------------------------------------------------------------
(* C30 (as claimed): after a successful registration through the wizard,   *)
(* the next render of the same page, without "Refresh Courses" pressed,    *)
(* draws the course cards with the registration counts and availability    *)
(* of the store.                                                           *)
C30_CardsFollowRegistration ==
    [][(/\ ui.event = "confirm" /\ ui.shown = "registered"
        /\ ui'.role = "Member" /\ ui'.page = "app_members"
        /\ ui'.event # "refresh")
          => ui'.df = DfCourses']_vars

----------------------------------------------------------------------------
(* the rows a step has added to the ledger *)
AddedRows ==
    {r \in BagToSet(Registrations') :
        CopiesIn(r, Registrations') > CopiesIn(r, Registrations)}

(* C25 (as claimed): after a successful register the new Registration is   *)
(* attributed to the member that passed the existence check, whichever     *)
(* textual form of the id was supplied: it is returned by the              *)
(* registration history of that member, counted in the member's            *)
(* total_registrations, and a further register of the member for the same  *)
(* course fails as a duplicate.                                            *)
C25_AttributedToCheckedMember ==
    [][\A id_member \in MemberArgs : \A c \in DOMAIN Courses :
          last' = Returned(id_member, IntVal(c), "Success") =>
             LET m == PyInt(id_member) IN
             /\ \A r \in AddedRows :
                   BagIn(r, historic_registrations(Members[m].member_name)')
             /\ \A i \in DOMAIN member_list' :
                   member_list'[i].member_id = m =>
                      member_list'[i].total_registrations =
                         BagCardinality(RegistrationsOfMember(Registrations', m))
             /\ RegisterResult(StrVal(IntToText(m)), IntVal(c))' = "Duplicate"]_vars

----------------------------------------------------------------------------
(* the members called name *)
MembersNamed(name) == {m \in DOMAIN Members : Members[m].member_name = name}

(* C29 (as claimed): delete_member(name) removes at most one member. When  *)
(* exactly one member has that name it is removed together with its        *)
(* registrations; when no member or more than one member has that name no  *)
(* row is removed and a failure message is returned.                       *)
C29_DeleteMemberByName ==
    [][last'.op = "delete_member" =>
          LET named == MembersNamed(last'.arg[1].text) IN
          IF Cardinality(named) = 1
          THEN /\ DOMAIN Members' = DOMAIN Members \ named
               /\ \A r \in BagToSet(Registrations') : MemberOfRow(r) \notin named
          ELSE /\ UNCHANGED <<Members, Accesscards, Courses, Coaches, Registrations>>
               /\ last'.result # "Success"
               /\ ~ShowsSuccess(last')]_vars

----------------------------------------------------------------------------
(* C27 (as claimed): no interleaving of a register call with a concurrent  *)
(* delete_course, delete_coach or delete_member leaves a Registration      *)
(* whose course or member no longer exists: the row a register call        *)
(* commits belongs to a member and a course that are in the store at the   *)
(* commit.                                                                 *)
C27_InsertNotInvalidated ==
    [][\A r \in AddedRows :
          /\ MemberOfRow(r) \in DOMAIN Members'
          /\ CourseOfRow(r) \in DOMAIN Courses']_vars

====
